---- MODULE Spec2Model ----
(***************************************************************************)
(* Model of nba_scores.py: the curses loop of NBAScoresCLI.__init__, its   *)
(* two display methods, and NBAGame.box_score.                             *)
(*                                                                         *)
(* The loop body is split at the places where the code's behaviour can be  *)
(* observed: the while test, the data update, the key check, the display   *)
(* calls, the second clock check and the blocking getch.                   *)
(***************************************************************************)
EXTENDS Integers, Sequences, FiniteSets, TLC

VARIABLES
    pc,             \* position in NBAScoresCLI.__init__ / box-score driver
    exc,            \* exception that ended the session, "none" while running
    k,              \* last character pressed (key code), 0 before any key
    focus,          \* self.focus
    extra_status_text,  \* self.extra_status_text
    refresh_delay,  \* self.refresh_delay
    games,          \* the name `games` inside __init__ (parameter, line 154 rebinds it)
    module_games,   \* the module-level name `games` (line 288) read by the display methods
    now,            \* last value of int(time.time())
    clock,          \* the wall clock, in whole seconds
    fetched,        \* whether line 153 ran in the current iteration
    pulsed,         \* whether line 175 ran in the current iteration
    height,         \* self.height (0 stands for None)
    width,          \* self.width (0 stands for None)
    frame,          \* what the display method wrote since the last stdscr.clear()
    footer,         \* the status suffix written by _display_status_bar
    away_quarter2pts,   \* NBAGame.away_quarter2pts of the game under box_score
    home_quarter2pts,   \* NBAGame.home_quarter2pts of the game under box_score
    box,            \* result of NBAGame.box_score
    writes,         \* the addstr calls of the display method under test
    raw,            \* a decoded scoreboard: GameHeader and LineScore rows
    built,          \* the list built by [NBAGame(d, id) for ...]
    date,           \* args.date, later the date passed to the fetch
    main_fetched,   \* whether line 287 ran
    ui_entered,     \* whether curses.wrapper was called (line 294)
    printed         \* whether "No games found for given day" was printed

vars == <<pc, exc, k, focus, extra_status_text, refresh_delay, games,
          module_games, now, clock, fetched, pulsed, height, width, frame,
          footer, away_quarter2pts, home_quarter2pts, box, writes, raw, built,
          date, main_fetched, ui_entered, printed>>

loopVars == <<pc, exc, k, focus, extra_status_text, refresh_delay, games,
              module_games, now, clock, fetched, pulsed, height, width, frame,
              footer>>

boxVars == <<away_quarter2pts, home_quarter2pts, box>>

layoutVars == <<writes>>

buildVars == <<raw, built>>

mainVars == <<date, main_fetched, ui_entered, printed>>

\* everything the loop of NBAScoresCLI.__init__ never assigns
outsideLoop == <<boxVars, layoutVars, buildVars, mainVars>>

(***************************************************************************)
(* Bounds                                                                  *)
(***************************************************************************)
MaxSmall == 3       \* small batches have 0..MaxSmall games
BigBatch == 11      \* a batch with more games than there are digit keys
StartTime == 27     \* first clock second of the modelled window
MaxTime == 30       \* last clock second of the modelled window
MaxData == 1        \* fetched game data is one of 0..MaxData
OtherDelay == 7     \* a refresh_delay a caller passes instead of the default
MaxHdr == 3         \* a scoreboard has 0..MaxHdr GameHeader rows
MaxWidth == 46      \* layout terminals are 1..MaxWidth columns wide, or 80, 81
LowHeight == 4      \* a terminal too short for the detail view
MaxRow == 5         \* rows 0..MaxRow are passed to the write helpers
MaxTextLen == 12    \* texts of 0..MaxTextLen characters are written
SampleLen == 5      \* length of a city name, a status text, a statistic
MaxQtr == 2         \* PTS_QTR1..PTS_QTR<MaxQtr> in a line score
MaxOT == 2          \* PTS_OT1..PTS_OT<MaxOT> in a line score
SamplePts == 7      \* a non-zero number of points in a period

(***************************************************************************)
(* Program constants                                                       *)
(***************************************************************************)
DefaultRefreshDelay == 30
DataTick == 5
NoFocus == -1

OrdQ == 113     \* ord('q')
OrdB == 98      \* ord('b')
Ord0 == 48      \* ord('0')
OrdX == 120     \* ord('x'), a key the loop does not handle

SelectHint0 == "# to select game"
BackHint == "Press 'b' to back"
SelectHint == "Press (#) to select game"
PulseText == "adfadfadsf"

TabSize == 5    \* box_score(tab_size=5)

(***************************************************************************)
(* Batches of games.  A game carries its id and a tag standing for the     *)
(* data the fetch returned for it (scores, clock, status).                 *)
(***************************************************************************)
Batch(n, data) == [i \in 1..n |-> [game_id |-> i - 1, data |-> data]]

BatchSizes == (0..MaxSmall) \cup {BigBatch - 1, BigBatch}

Batches == {Batch(n, d) : n \in BatchSizes, d \in 0..MaxData}

\* what a failing fetch raises: requests.get a RequestException (line 267),
\* resultsets2dict a KeyError for a body without 'resultSets' (line 37),
\* resultsets2dict a TypeError for a body that is JSON but not an object
\* holding a list of result-set objects (lines 37-38), NBAGame an
\* AttributeError for a game whose LineScore rows are missing (lines 93-95),
\* Ctrl-C during the blocking request a KeyboardInterrupt
FetchErrors ==
    {"RequestException", "KeyError", "TypeError", "AttributeError",
     "KeyboardInterrupt"}

\* get_nba_scoreboard + the NBAGame list comprehension: a batch, or an exception
FetchOutcomes == {[ok |-> TRUE, games |-> b, exc |-> "none"] : b \in Batches}
                     \cup {[ok |-> FALSE, games |-> <<>>, exc |-> e] : e \in FetchErrors}

\* keys the user can press
Keys == {Ord0 + d : d \in 0..9} \cup {OrdB, OrdQ, OrdX}

\* curses.KEY_RESIZE: what getch returns when the terminal was resized
KeyResize == 410

\* getch returns ERR when there is nothing to read
GetchErr == -1

\* stdscr.getch() in the default blocking mode (nodelay(0) is restored at
\* line 178): it returns once a key has been pressed, with KEY_RESIZE once
\* the terminal has been resized, or with -1 when standard input is at end
\* of file
GetchReturns == Keys \cup {KeyResize, GetchErr}

\* positions inside the while loop
LoopPcs == {"while", "update", "key", "render", "pulse", "getch"}

\* terminals the loop is run in: two that hold the whole layout, one too
\* short for the detail view, one too narrow for the longest footer and one
\* too narrow for a game line
TermSizes == {<<24, 80>>, <<40, 120>>, <<10, 80>>, <<24, 40>>, <<24, 20>>}

ClearFrame == [mode |-> "clear", shown |-> <<>>]

(***************************************************************************)
(* str(x) as a sequence of character codes, ord() of a string, int(chr()). *)
(***************************************************************************)
RECURSIVE Str(_)
Str(x) == IF x < 10 THEN <<Ord0 + x>>
          ELSE Str(x \div 10) \o <<Ord0 + (x % 10)>>

\* ord(s) raises TypeError unless s has length 1
OrdOk(s) == Len(s) = 1
Ord(s) == s[1]

\* int(k) in place of int(chr(k)): the key code itself becomes the focus
IntChrKeyCode(c) == c

IntChr(c) == c - Ord0

\* [ord(str(x)) for x in range(n)] raises iff some str(x) is not one character
KeyListRaises(n) == \E x \in 0..(n - 1) : ~OrdOk(Str(x))

\* the codes of all ten digits, whatever the number of games
KeyListAllDigits(n) == {Ord(Str(x)) : x \in 0..9}

KeyList(n) == {Ord(Str(x)) : x \in 0..(n - 1)}

(***************************************************************************)
(* NBAGame.box_score.  Text is a sequence of character codes.  A per-period *)
(* value is <<>> for None and <<p>> for the integer p.  A quarter2pts dict  *)
(* is the sequence of its items in insertion order; the two teams' dicts    *)
(* have the same keys in the same order because resultsets2dict decodes     *)
(* every LineScore row with the same headers.                               *)
(***************************************************************************)
None == <<>>

\* Python truthiness of a per-period value: None and 0 are falsy
Truthy(v) == v # None /\ v[1] # 0

QtrKey(i) == [prefix |-> "PTS_QTR", n |-> i]
OTKey(i) == [prefix |-> "PTS_OT", n |-> i]

\* the 'PTS_' keys of a line score, in header order
PeriodKeys == [i \in 1..(MaxQtr + MaxOT) |->
                 IF i <= MaxQtr THEN QtrKey(i) ELSE OTKey(i - MaxQtr)]

\* 'OT' in k
HasOT(key) == key.prefix = "PTS_OT"

\* c.replace('PTS_QTR', 'Q').replace('PTS_OT', 'OT'), as character codes
CleanKey(key) == (IF key.prefix = "PTS_QTR" THEN <<81>> ELSE <<79, 84>>) \o Str(key.n)

PeriodValues == {None, <<0>>, <<SamplePts>>}

\* all quarter2pts dicts over PeriodKeys
Quarter2Pts == {[i \in 1..Len(PeriodKeys) |-> [key |-> PeriodKeys[i], v |-> f[i]]] :
                  f \in [1..Len(PeriodKeys) -> PeriodValues]}

\* d[c] for a key c of the dict
Lookup(d, c) == (CHOOSE i \in 1..Len(d) : d[i].key = c)

Spaces(n) == [i \in 1..(IF n > 0 THEN n ELSE 0) |-> 32]

\* _align_text
AlignText(text, tab_size) ==
    Spaces(tab_size - 1 - Len(text)) \o text \o Spaces(1)

RECURSIVE Join(_, _)
Join(sep, parts) ==
    IF Len(parts) = 0 THEN <<>>
    ELSE IF Len(parts) = 1 THEN parts[1]
    ELSE parts[1] \o sep \o Join(sep, Tail(parts))

\* str(v or '-')
CellText(v) == IF Truthy(v) THEN Str(v[1]) ELSE <<45>>

\* line 110: the keys kept as columns (only the away dict is consulted)
ColumnKept(item) == Truthy(item.v) \/ ~HasOT(item.key)

RECURSIVE Columns(_)
Columns(away) ==
    IF Len(away) = 0 THEN <<>>
    ELSE (IF ColumnKept(away[1]) THEN <<away[1].key>> ELSE <<>>)
         \o Columns(Tail(away))

AwayAbbr == <<65, 87, 89>>
HomeAbbr == <<72, 79, 77>>

TeamCells(d, columns) ==
    [i \in 1..Len(columns) |-> CellText(d[Lookup(d, columns[i])].v)]

AlignAll(cells, tab_size) ==
    [i \in 1..Len(cells) |-> AlignText(cells[i], tab_size)]

\* lines 110-117
BoxScore(away, home, tab_size) ==
    LET columns == Columns(away)
        columns_clean == [i \in 1..Len(columns) |-> CleanKey(columns[i])]
        away_cells == TeamCells(away, columns)
        home_cells == TeamCells(home, columns)
        header == Join(<<124>>, AlignAll(<<<<>>>> \o columns_clean, tab_size))
        fill == Join(<<43>>, [i \in 1..(Len(columns) + 1) |-> [j \in 1..tab_size |-> 45]])
        away_line == Join(<<124>>, AlignAll(<<AwayAbbr>> \o away_cells, tab_size))
        home_line == Join(<<124>>, AlignAll(<<HomeAbbr>> \o home_cells, tab_size))
    IN [columns |-> columns,
        away_cells |-> away_cells,
        home_cells |-> home_cells,
        lines |-> <<header, fill, away_line, home_line>>]

NoBox == [columns |-> <<>>, away_cells |-> <<>>, home_cells |-> <<>>, lines |-> <<>>]

(***************************************************************************)
(* Screen layout: _write_centered_text, _write_center_column,              *)
(* _display_game and _display_status_bar, each called on a cleared screen  *)
(* of height x width cells.  `writes` is the sequence of addstr calls the   *)
(* method made, the one that raised curses.error included: y and x are the  *)
(* coordinates passed, n the length of the text.                            *)
(***************************************************************************)
LayoutSizes ==
    {<<h, w>> : h \in {LowHeight, 24}, w \in (1..MaxWidth) \cup {80, 81}}

StatusTexts == {SelectHint0, BackHint, SelectHint, PulseText}

\* len(self.extra_status_text)
StatusLen(s) ==
    CASE s = SelectHint0 -> 16
      [] s = BackHint -> 17
      [] s = SelectHint -> 24
      [] s = PulseText -> 10

\* len("Press 'q' to exit | ")
QuitHintLen == 20

\* window.addstr(y, x, text) on an h x w window raises curses.error when the
\* position is outside the window or the text does not end before the
\* bottom-right cell; a text longer than its row wraps to the next row
AddstrRaises(y, x, n, h, w) ==
    \/ y < 0
    \/ y >= h
    \/ x < 0
    \/ x >= w
    \/ y * w + x + n >= h * w

\* line 240 without the len(text) % 2 term
CenteredXNoParity(w, n) == (w \div 2) - (n \div 2)

\* line 240: x_start of _write_centered_text
CenteredX(w, n) == (w \div 2) - (n \div 2) - (n % 2)

\* lines 257-259: x_start of _write_center_column
ColumnX(w, n, column) ==
    (w \div 4) - (n \div 2) - (n % 2) + (IF column = "right" THEN w \div 2 ELSE 0)

\* an addstr call: tab is the offset of the text's tab character, -1 when
\* it has none
WriteCentered(y, n, line) ==
    [y |-> y, x |-> CenteredX(width, n), n |-> n, tab |-> -1,
     kind |-> "centered", line |-> line]

WriteColumn(y, n, column, line) ==
    [y |-> y, x |-> ColumnX(width, n, column), n |-> n, tab |-> -1,
     kind |-> column, line |-> line]

\* the number of cells the text of write wr advances the cursor on a window
\* w cells wide: a tab moves to the next multiple of 8, or to the start of
\* the next row when that is past the right edge
Extent(wr, w) ==
    IF wr.tab < 0 THEN wr.n
    ELSE LET p1 == wr.y * w + wr.x + wr.tab
             row == p1 \div w
             next == (((p1 % w) \div 8) + 1) * 8
             p2 == IF next >= w THEN (row + 1) * w ELSE row * w + next
         IN (p2 + (wr.n - wr.tab - 1)) - (wr.y * w + wr.x)

\* index of the first addstr call of ws that raises, 0 if none does
FirstRaise(ws) ==
    LET bad == {i \in 1..Len(ws) :
                   AddstrRaises(ws[i].y, ws[i].x, Extent(ws[i], width), height, width)}
    IN IF bad = {} THEN 0 ELSE CHOOSE i \in bad : \A j \in bad : i <= j

\* the calls actually made: up to and including the first one that raises
Executed(ws) == IF FirstRaise(ws) = 0 THEN ws ELSE SubSeq(ws, 1, FirstRaise(ws))

\* line scores of the game in focus
LayoutDicts ==
    {q \in Quarter2Pts : \A i \in 1..Len(q) : q[i].v \in {None, <<SamplePts>>}}

\* the 7 statistics rows of one column, lines 195-201 and 203-209
StatRows(column) ==
    [i \in 1..7 |-> WriteColumn(11 + i,
                                IF i = 1 THEN Len(AwayAbbr) ELSE 7 + SampleLen,
                                column, "stat")]

\* lines 188-209: the addstr calls of _display_game, in program order
DisplayGameWrites(q) ==
    LET lines == BoxScore(q, q, TabSize).lines
    IN <<WriteCentered(2, SampleLen + 3 + SampleLen, "title"),
         WriteCentered(3, 3 + 3 + 3, "score"),
         WriteCentered(4, SampleLen, "status")>>
       \o [i \in 1..Len(lines) |-> WriteCentered(4 + (i - 1), Len(lines[i]), "box")]
       \o StatRows("left")
       \o StatRows("right")

\* " " * (self.width - len(statusbarstr)), filling the whole row
PadLenFullRow(w, n) == IF w - n > 0 THEN w - n ELSE 0

\* line 231: len(" " * (self.width - len(statusbarstr) - 1))
PadLen(w, n) == IF w - n - 1 > 0 THEN w - n - 1 ELSE 0

\* lines 228-231: the two addstr calls of _display_status_bar
StatusBarWrites(s) ==
    LET n == QuitHintLen + StatusLen(s)
    IN <<[y |-> height - 1, x |-> 0, n |-> n, tab |-> -1,
          kind |-> "raw", line |-> "footer"],
         [y |-> height - 1, x |-> n, n |-> PadLen(width, n), tab |-> -1,
          kind |-> "raw", line |-> "pad"]>>

\* len of f'({i}) {game.topline}' up to its tab: "(i) AWY 100 - 100 HOM"
TopLineTab(i) == 1 + Len(Str(i)) + 2 + Len(AwayAbbr) + 1 + (3 + 3 + 3) + 1 + Len(HomeAbbr)

\* lines 218-222: the addstr calls of _display_all_games on g, in program
\* order; live_pc_time is empty and game_status has SampleLen characters
DisplayAllGamesWrites(g) ==
    <<WriteCentered(2, 5, "header")>>
    \o [i \in 1..Len(g) |->
          [y |-> 3 + (i - 1),
           x |-> CenteredX(width, TopLineTab(i - 1) + 1 + SampleLen),
           n |-> TopLineTab(i - 1) + 1 + SampleLen,
           tab |-> TopLineTab(i - 1),
           kind |-> "centered", line |-> "game"]]

\* the line score of a game of the loop: the quarters played, no overtime
LoopLineScore ==
    [i \in 1..Len(PeriodKeys) |->
        [key |-> PeriodKeys[i],
         v |-> IF HasOT(PeriodKeys[i]) THEN None ELSE <<SamplePts>>]]

(***************************************************************************)
(* The game list the key check uses and the one the display methods use.   *)
(* `games` inside __init__ is the parameter; `games` inside _display_game  *)
(* and _display_all_games is the module-level name bound at line 288.      *)
(***************************************************************************)

\* while (k != ord('q'))
LoopContinues(key) == key # OrdQ

\* int(time.time()) % 5 == 0
DataDue(t) == t % DataTick = 0

\* int(time.time()) % self.refresh_delay == 0
PulseDue(t, delay) == t % delay = 0

\* the key check with a final else branch that drops the focus
FocusAfterKeyElseReset(key, n, f) ==
    IF key \in KeyList(n) THEN IntChr(key)
    ELSE NoFocus

\* lines 157-162: the new self.focus for key code key, n = len(games)
FocusAfterKey(key, n, f) ==
    IF key \in KeyList(n) THEN IntChr(key)
    ELSE IF key = OrdB THEN NoFocus
    ELSE f

\* lines 157-162: the new self.extra_status_text
StatusAfterKey(key, n, s) ==
    IF key \in KeyList(n) THEN BackHint
    ELSE IF key = OrdB THEN SelectHint
    ELSE s

\* _display_game: game = games[self.focus] on the module-level list
DisplayGameRaises(f, g) == ~(f < Len(g))
DisplayGame(f, g) == [mode |-> "game", shown |-> <<g[f + 1]>>]

\* _display_all_games: one line per game of the module-level list
DisplayAllGames(g) == [mode |-> "all", shown |-> g]

(***************************************************************************)
(* Initial state: NBAScoresCLI.__init__ has run up to the while loop.      *)
(* main only launches the CLI with a non-empty batch, and passes the       *)
(* module-level list itself as the parameter.                              *)
(***************************************************************************)
LayoutIdle == writes = <<>>

BuildIdle ==
    /\ raw = [GameHeader |-> <<>>, LineScore |-> <<>>]
    /\ built = <<>>

\* the code points of the digit zero of every Unicode decimal-digit block
\* (category Nd); each block is ten consecutive code points
DecimalZeros ==
    {48, 1632, 1776, 1984, 2406, 2534, 2662, 2790, 2918, 3046, 3174, 3302,
     3430, 3558, 3664, 3792, 3872, 4160, 4240, 6112, 6160, 6470, 6608,
     6784, 6800, 6992, 7088, 7232, 7248, 42528, 43216, 43264, 43472, 43504,
     43600, 44016, 65296, 66720, 68912, 69734, 69872, 69942, 70096, 70384,
     70736, 70864, 71248, 71360, 71472, 71904, 72016, 72784, 73040, 73120,
     92768, 92864, 93008, 120782, 120792, 120802, 120812, 120822, 123200,
     123632, 125264, 130032}

\* \d in a str pattern: every Unicode decimal digit
DecimalDigits == UNION {z..(z + 9) : z \in DecimalZeros}

\* r'^[01]\d-[0123]\d-\d{4}$' as one character class per position
DatePattern ==
    <<{48, 49}, DecimalDigits, {45}, 48..51, DecimalDigits, {45},
      DecimalDigits, DecimalDigits, DecimalDigits, DecimalDigits>>

\* re.match(pattern, s): anchored at the start; '$' matches at the end of the
\* string and also just before a newline that ends the string
DateMatches(s) ==
    /\ \/ Len(s) = Len(DatePattern)
       \/ (Len(s) = Len(DatePattern) + 1 /\ s[Len(s)] = 10)
    /\ \A i \in 1..Len(DatePattern) : s[i] \in DatePattern[i]

\* date.replace('-', '/')
ReplaceDash(s) == [i \in 1..Len(s) |-> IF s[i] = 45 THEN 47 ELSE s[i]]

\* "01-15-2019"
Date1 == <<48, 49, 45, 49, 53, 45, 50, 48, 49, 57>>

\* main has validated the date, fetched a non-empty batch and called
\* curses.wrapper
MainDone ==
    /\ \A i \in 1..Len(date) : date[i] # 45
    /\ DateMatches([i \in 1..Len(date) |-> IF date[i] = 47 THEN 45 ELSE date[i]])
    /\ main_fetched = TRUE
    /\ ui_entered = TRUE
    /\ printed = FALSE

BoxIdle ==
    /\ away_quarter2pts = <<>>
    /\ home_quarter2pts = <<>>
    /\ box = [columns |-> <<>>, away_cells |-> <<>>, home_cells |-> <<>>, lines |-> <<>>]

\* the constructor on its first arrival at line 145; refresh_delay is the
\* parameter of line 124, the default or what the caller passed (line 126)
Init ==
    /\ pc = "while"
    /\ exc = "none"
    /\ k = 0
    /\ focus = NoFocus
    /\ extra_status_text = SelectHint0
    /\ refresh_delay \in {DefaultRefreshDelay, OtherDelay}
    /\ module_games \in {b \in Batches : Len(b) > 0 /\ b[1].data = 0}
    /\ games = module_games
    /\ now = StartTime
    /\ clock = StartTime
    /\ fetched = FALSE
    /\ pulsed = FALSE
    /\ height = 0
    /\ width = 0
    /\ frame = ClearFrame
    /\ footer = "none"
    /\ BoxIdle
    /\ LayoutIdle
    /\ BuildIdle
    /\ date = ReplaceDash(Date1)
    /\ MainDone

Raise(e) ==
    /\ pc' = "raise"
    /\ exc' = e

\* line 145, and lines 148-149 when the loop body is entered
WhileTest ==
    /\ pc = "while"
    /\ IF LoopContinues(k)
       THEN /\ pc' = "update"
            /\ frame' = ClearFrame
            /\ footer' = "none"
            /\ fetched' = FALSE
            /\ pulsed' = FALSE
            /\ \E sz \in TermSizes :
                  /\ height' = sz[1]
                  /\ width' = sz[2]
       ELSE /\ pc' = "exit"
            /\ UNCHANGED <<frame, footer, fetched, pulsed, height, width>>
    /\ UNCHANGED <<exc, k, focus, extra_status_text, refresh_delay, games,
                   module_games, now, clock>>
    /\ UNCHANGED outsideLoop

\* lines 152-154
UpdateData ==
    /\ pc = "update"
    /\ LET t == clock IN
        /\ now' = t
        /\ IF DataDue(t)
           THEN /\ fetched' = TRUE
                /\ \E r \in FetchOutcomes :
                     IF r.ok
                     THEN /\ games' = r.games
                          /\ pc' = "key"
                          /\ UNCHANGED exc
                     ELSE /\ Raise(r.exc)
                          /\ UNCHANGED games
           ELSE /\ pc' = "key"
                /\ UNCHANGED <<exc, games, fetched>>
    /\ UNCHANGED <<k, focus, extra_status_text, refresh_delay, module_games,
                   clock, pulsed, height, width, frame, footer>>
    /\ UNCHANGED outsideLoop

\* lines 157-162
CheckKey ==
    /\ pc = "key"
    /\ IF KeyListRaises(Len(games))
       THEN /\ Raise("TypeError")
            /\ UNCHANGED <<focus, extra_status_text>>
       ELSE /\ focus' = FocusAfterKey(k, Len(games), focus)
            /\ extra_status_text' = StatusAfterKey(k, Len(games), extra_status_text)
            /\ pc' = "render"
            /\ UNCHANGED exc
    /\ UNCHANGED <<k, refresh_delay, games, module_games, now, clock, fetched,
                   pulsed, height, width, frame, footer>>
    /\ UNCHANGED outsideLoop

\* lines 165-171.  frame and footer record which games and which status text
\* were passed to addstr; a call that falls outside the window raises
\* curses.error, which nothing catches.
Display ==
    /\ pc = "render"
    /\ IF focus > NoFocus /\ DisplayGameRaises(focus, module_games)
       THEN /\ Raise("IndexError")
            /\ UNCHANGED <<frame, footer>>
       ELSE LET view == IF focus > NoFocus
                        THEN DisplayGameWrites(LoopLineScore)
                        ELSE DisplayAllGamesWrites(module_games)
                full == IF focus > NoFocus
                        THEN DisplayGame(focus, module_games)
                        ELSE DisplayAllGames(module_games)
            IN IF FirstRaise(view) # 0
               THEN /\ Raise("curses.error")
                    /\ frame' = IF focus > NoFocus THEN full
                                ELSE DisplayAllGames(SubSeq(module_games, 1,
                                                            FirstRaise(view) - 1))
                    /\ footer' = footer
               ELSE /\ frame' = full
                    /\ footer' = extra_status_text
                    /\ IF FirstRaise(StatusBarWrites(extra_status_text)) # 0
                       THEN Raise("curses.error")
                       ELSE /\ pc' = "pulse"
                            /\ UNCHANGED exc
    /\ UNCHANGED <<k, focus, extra_status_text, refresh_delay, games,
                   module_games, now, clock, fetched, pulsed, height, width>>
    /\ UNCHANGED outsideLoop

\* lines 174-178
StatusPulse ==
    /\ pc = "pulse"
    /\ LET t == clock IN
        /\ now' = t
        /\ pulsed' = PulseDue(t, refresh_delay)
        /\ extra_status_text' = IF PulseDue(t, refresh_delay) THEN PulseText
                                ELSE extra_status_text
    /\ pc' = "getch"
    /\ UNCHANGED <<exc, k, focus, refresh_delay, games, module_games, clock,
                   fetched, height, width, frame, footer>>
    /\ UNCHANGED outsideLoop

\* lines 181-182
GetKey ==
    /\ pc = "getch"
    /\ \/ /\ \E key \in GetchReturns : k' = key
          /\ pc' = "while"
          /\ UNCHANGED exc
       \/ \* Ctrl-C while the read is blocked: the assignment never happens
          /\ Raise("KeyboardInterrupt")
          /\ UNCHANGED k
    /\ UNCHANGED <<focus, extra_status_text, refresh_delay, games,
                   module_games, now, clock, fetched, pulsed, height, width,
                   frame, footer>>
    /\ UNCHANGED outsideLoop

\* the wall clock advances whatever the loop is doing
Tick ==
    /\ pc \in LoopPcs
    /\ clock < MaxTime
    /\ clock' = clock + 1
    /\ UNCHANGED <<pc, exc, k, focus, extra_status_text, refresh_delay, games,
                   module_games, now, fetched, pulsed, height, width, frame,
                   footer>>
    /\ UNCHANGED outsideLoop

Next ==
    \/ WhileTest
    \/ UpdateData
    \/ CheckKey
    \/ Display
    \/ StatusPulse
    \/ GetKey
    \/ Tick

Spec == Init /\ [][Next]_vars

(***************************************************************************)
(* NBAGame.box_score called on its own, on every pair of quarter2pts dicts.  *)
(***************************************************************************)
\* the loop is not running while box_score is exercised on its own
LoopIdle ==
    /\ exc = "none"
    /\ k = 0
    /\ focus = NoFocus
    /\ extra_status_text = SelectHint0
    /\ refresh_delay = DefaultRefreshDelay
    /\ module_games = Batch(1, 0)
    /\ games = module_games
    /\ now = StartTime
    /\ clock = StartTime
    /\ fetched = FALSE
    /\ pulsed = FALSE
    /\ height = 0
    /\ width = 0
    /\ frame = ClearFrame
    /\ footer = "none"

InitBox ==
    /\ pc = "box_call"
    /\ LoopIdle
    /\ LayoutIdle
    /\ BuildIdle
    /\ date = ReplaceDash(Date1)
    /\ MainDone
    /\ away_quarter2pts \in Quarter2Pts
    /\ home_quarter2pts \in Quarter2Pts
    /\ box = NoBox

CallBoxScore ==
    /\ pc = "box_call"
    /\ box' = BoxScore(away_quarter2pts, home_quarter2pts, TabSize)
    /\ pc' = "box_done"
    /\ UNCHANGED <<exc, k, focus, extra_status_text, refresh_delay, games,
                   module_games, now, clock, fetched, pulsed, height, width,
                   frame, footer>>
    /\ UNCHANGED <<away_quarter2pts, home_quarter2pts>>
    /\ UNCHANGED <<layoutVars, buildVars, mainVars>>

NextBox == CallBoxScore

SpecBox == InitBox /\ [][NextBox]_vars

(***************************************************************************)
(* Building the batch: [NBAGame(d, game['GAME_ID']) for game in            *)
(* d['GameHeader']].  Game i has home team 2i and visitor team 2i+1; a      *)
(* team's city name is its id.  A scoreboard may lack the LineScore row of  *)
(* any team.                                                                *)
(***************************************************************************)
HeaderRow(i) == [GAME_ID |-> i, HOME_TEAM_ID |-> 2 * i, VISITOR_TEAM_ID |-> 2 * i + 1]

LineScoreRow(t) == [TEAM_ID |-> t, TEAM_CITY_NAME |-> t]

\* the LineScore rows of teams 0..m-1 that are in `present`, in team order
RECURSIVE RowsOf(_, _)
RowsOf(m, present) ==
    IF m = 0 THEN <<>>
    ELSE IF (m - 1) \in present
         THEN Append(RowsOf(m - 1, present), LineScoreRow(m - 1))
         ELSE RowsOf(m - 1, present)

Scoreboards ==
    {[GameHeader |-> [i \in 1..n |-> HeaderRow(i - 1)],
      LineScore |-> RowsOf(2 * n, present)] :
        n \in 0..MaxHdr, present \in SUBSET (0..(2 * MaxHdr - 1))}

\* lines 55-57: the last GameHeader row with the given GAME_ID
HeaderOf(d, game_id) ==
    LET hs == SelectSeq(d.GameHeader, LAMBDA h : h.GAME_ID = game_id)
    IN hs[Len(hs)]

TeamRows(d, team_id) == SelectSeq(d.LineScore, LAMBDA ls : ls.TEAM_ID = team_id)

\* the row whose assignments are the last to run in the loop of lines 65-90
LastRow(d, team_id) == TeamRows(d, team_id)[Len(TeamRows(d, team_id))]

\* line 93 reads self.away_city and self.home_city, which exist only if the
\* loop of lines 65-90 met a row of the team
NBAGameRaises(d, game_id) ==
    \/ TeamRows(d, HeaderOf(d, game_id).VISITOR_TEAM_ID) = <<>>
    \/ TeamRows(d, HeaderOf(d, game_id).HOME_TEAM_ID) = <<>>

NBAGameOf(d, game_id) ==
    [game_id |-> game_id,
     away_city |-> LastRow(d, HeaderOf(d, game_id).VISITOR_TEAM_ID).TEAM_CITY_NAME,
     home_city |-> LastRow(d, HeaderOf(d, game_id).HOME_TEAM_ID).TEAM_CITY_NAME]

BuildRaises(d) ==
    \E i \in 1..Len(d.GameHeader) : NBAGameRaises(d, d.GameHeader[i].GAME_ID)

BuildGames(d) ==
    [i \in 1..Len(d.GameHeader) |-> NBAGameOf(d, d.GameHeader[i].GAME_ID)]

InitBuild ==
    /\ pc = "build_call"
    /\ LoopIdle
    /\ BoxIdle
    /\ LayoutIdle
    /\ date = ReplaceDash(Date1)
    /\ MainDone
    /\ raw \in Scoreboards
    /\ built = <<>>

BuildBatch ==
    /\ pc = "build_call"
    /\ IF BuildRaises(raw)
       THEN /\ pc' = "raise"
            /\ exc' = "AttributeError"
            /\ built' = built
       ELSE /\ pc' = "build_done"
            /\ exc' = exc
            /\ built' = BuildGames(raw)
    /\ UNCHANGED <<k, focus, extra_status_text, refresh_delay, games,
                   module_games, now, clock, fetched, pulsed, height, width,
                   frame, footer, raw>>
    /\ UNCHANGED <<boxVars, layoutVars, mainVars>>

NextBuild == BuildBatch

SpecBuild == InitBuild /\ [][NextBuild]_vars

(***************************************************************************)
(* The display methods called on their own, on a cleared screen.            *)
(***************************************************************************)
InitLayout ==
    /\ pc = "layout_call"
    /\ exc = "none"
    /\ k = 0
    /\ focus = NoFocus
    /\ extra_status_text \in StatusTexts
    /\ refresh_delay = DefaultRefreshDelay
    /\ module_games = Batch(1, 0)
    /\ games = module_games
    /\ now = StartTime
    /\ clock = StartTime
    /\ fetched = FALSE
    /\ pulsed = FALSE
    /\ \E sz \in LayoutSizes :
          /\ height = sz[1]
          /\ width = sz[2]
    /\ frame = ClearFrame
    /\ footer = "none"
    /\ BoxIdle
    /\ BuildIdle
    /\ date = ReplaceDash(Date1)
    /\ MainDone
    /\ writes = <<>>

\* run the addstr calls ws of one display method
RunWrites(ws) ==
    /\ pc = "layout_call"
    /\ writes' = Executed(ws)
    /\ IF FirstRaise(ws) = 0
       THEN /\ pc' = "layout_done"
            /\ exc' = exc
       ELSE /\ pc' = "raise"
            /\ exc' = "curses.error"
    /\ UNCHANGED <<k, focus, extra_status_text, refresh_delay, games,
                   module_games, now, clock, fetched, pulsed, height, width,
                   frame, footer>>
    /\ UNCHANGED <<boxVars, buildVars, mainVars>>

CallWriteCenteredText ==
    \E y \in 0..MaxRow, n \in 0..MaxTextLen :
        RunWrites(<<WriteCentered(y, n, "text")>>)

CallWriteCenterColumn ==
    \E y \in 0..MaxRow, n \in 0..MaxTextLen, column \in {"left", "right"} :
        RunWrites(<<WriteColumn(y, n, column, "text")>>)

CallDisplayGame ==
    \E q \in LayoutDicts : RunWrites(DisplayGameWrites(q))

CallDisplayStatusBar ==
    RunWrites(StatusBarWrites(extra_status_text))

NextLayout ==
    \/ CallWriteCenteredText
    \/ CallWriteCenterColumn
    \/ CallDisplayGame
    \/ CallDisplayStatusBar

SpecLayout == InitLayout /\ [][NextLayout]_vars

(***************************************************************************)
(* The __main__ block: validate the date, fetch the first batch, and either *)
(* print the no-games message or hand over to the curses loop.  A date is a *)
(* sequence of character codes.                                             *)
(***************************************************************************)
\* values of --date: "01-15-2019", "19-39-0000", "01-15-2019\n",
\* "0\u0661-15-2019" (an Arabic-Indic digit one), and then "1-15-2019",
\* "01/15/2019", "21-15-2019", "01-45-2019", "01-15-19", "01-15-2019x", ""
SampleDates ==
    {Date1,
     <<48, 1633, 45, 49, 53, 45, 50, 48, 49, 57>>,
     <<49, 57, 45, 51, 57, 45, 48, 48, 48, 48>>,
     Date1 \o <<10>>,
     <<49, 45, 49, 53, 45, 50, 48, 49, 57>>,
     <<48, 49, 47, 49, 53, 47, 50, 48, 49, 57>>,
     <<50, 49, 45, 49, 53, 45, 50, 48, 49, 57>>,
     <<48, 49, 45, 52, 53, 45, 50, 48, 49, 57>>,
     <<48, 49, 45, 49, 53, 45, 49, 57>>,
     Date1 \o <<OrdX>>,
     <<>>}

\* lines 287-288 at startup: a batch (possibly empty), or an exception
InitialFetchOutcomes ==
    {r \in FetchOutcomes : r.ok => (Len(r.games) = 0 \/ r.games[1].data = 0)}

\* a list that is never taken to be empty
NoGamesNever(g) == FALSE

\* line 291: not games
NoGames(g) == Len(g) = 0

InitMain ==
    /\ pc = "main"
    /\ exc = "none"
    /\ k = 0
    /\ focus = NoFocus
    /\ extra_status_text = SelectHint0
    /\ refresh_delay = DefaultRefreshDelay
    /\ module_games = <<>>
    /\ games = <<>>
    /\ now = StartTime
    /\ clock = StartTime
    /\ fetched = FALSE
    /\ pulsed = FALSE
    /\ height = 0
    /\ width = 0
    /\ frame = ClearFrame
    /\ footer = "none"
    /\ BoxIdle
    /\ LayoutIdle
    /\ BuildIdle
    /\ date \in SampleDates
    /\ main_fetched = FALSE
    /\ ui_entered = FALSE
    /\ printed = FALSE

\* lines 281-283
ValidateDate ==
    /\ pc = "main"
    /\ IF DateMatches(date)
       THEN /\ date' = ReplaceDash(date)
            /\ pc' = "fetch"
            /\ exc' = exc
       ELSE /\ Raise("ValueError")
            /\ date' = date
    /\ UNCHANGED <<k, focus, extra_status_text, refresh_delay, games,
                   module_games, now, clock, fetched, pulsed, height, width,
                   frame, footer>>
    /\ UNCHANGED <<main_fetched, ui_entered, printed>>
    /\ UNCHANGED <<boxVars, layoutVars, buildVars>>

\* lines 286-288
InitialFetch ==
    /\ pc = "fetch"
    /\ main_fetched' = TRUE
    /\ \E r \in InitialFetchOutcomes :
          IF r.ok
          THEN /\ module_games' = r.games
               /\ pc' = "launch"
               /\ exc' = exc
          ELSE /\ Raise(r.exc)
               /\ module_games' = module_games
    /\ UNCHANGED <<k, focus, extra_status_text, refresh_delay, games, now,
                   clock, fetched, pulsed, height, width, frame, footer>>
    /\ UNCHANGED <<date, ui_entered, printed>>
    /\ UNCHANGED <<boxVars, layoutVars, buildVars>>

\* curses.COLORS of the terminal: none, 8 and 256 colours
TermColors == {0, 8, 256}

\* the colour numbers passed to init_pair at lines 139-142: COLOR_CYAN,
\* COLOR_BLACK, COLOR_RED, COLOR_WHITE and 247
PairColors == {6, 0, 1, 7, 247}

\* init_pair raises ValueError for a colour number above COLORS - 1
InitPairRaises(colors) == \E c \in PairColors : c >= colors

\* lines 291-294, and lines 124-142 when the CLI is constructed: the
\* parameter `games` is the module-level list
Launch ==
    /\ pc = "launch"
    /\ IF NoGames(module_games)
       THEN /\ printed' = TRUE
            /\ pc' = "exit"
            /\ UNCHANGED <<exc, ui_entered, games, k, focus, extra_status_text,
                           refresh_delay, height, width>>
       ELSE /\ ui_entered' = TRUE
            /\ games' = module_games
            /\ k' = 0
            /\ refresh_delay' = DefaultRefreshDelay
            /\ focus' = NoFocus
            /\ extra_status_text' = SelectHint0
            /\ height' = 0
            /\ width' = 0
            /\ printed' = printed
            /\ \E colors \in TermColors :
                  IF InitPairRaises(colors)
                  THEN Raise("ValueError")
                  ELSE /\ pc' = "while"
                       /\ exc' = exc
    /\ UNCHANGED <<module_games, now, clock, fetched, pulsed, frame, footer>>
    /\ UNCHANGED <<date, main_fetched>>
    /\ UNCHANGED <<boxVars, layoutVars, buildVars>>

NextMain ==
    \/ ValidateDate
    \/ InitialFetch
    \/ Launch
    \/ Next

SpecMain == InitMain /\ [][NextMain]_vars

(***************************************************************************)
(* Properties                                                              *)
(***************************************************************************)
Digit(key) == key - Ord0
IsDigitKey(key) == key \in {Ord0 + d : d \in 0..9}
InRangeDigit(key, n) == IsDigitKey(key) /\ Digit(key) < n
Ended == pc \in {"exit", "raise"}

\* C1: once the display methods have drawn, every game on the screen is a
\* game of the batch bound to `games` in the loop (the newly fetched batch),
\* and the batch the key check measures is the batch the display methods read.
C1_RenderShowsFetchedBatch ==
    /\ pc \in {"pulse", "getch"} =>
          \A i \in 1..Len(frame.shown) :
              \E j \in 1..Len(games) : frame.shown[i] = games[j]
    /\ pc \in {"key", "render"} => games = module_games

\* C2: a failing in-loop fetch never terminates the session.
C2_FetchFailureKeepsSession ==
    ~(pc = "raise" /\ exc = "RequestException")

\* C3: at the render step the focus is none or a valid index into the batch
\* the display methods read, and it is below the size of the refreshed batch.
C3_FocusValidAtRender ==
    pc = "render" =>
        \/ focus = NoFocus
        \/ /\ 0 <= focus
           /\ focus < Len(module_games)
           /\ focus < Len(games)

\* C4: the session starts in Overview, and with 1 <= n <= 10 games a digit
\* key d < n applied in any state gives Focused(d) and the back hint.
C4_DigitKeyFocuses ==
    /\ focus = NoFocus
    /\ [][(/\ pc = "key"
           /\ pc' # "key"
           /\ Len(games) >= 1
           /\ Len(games) <= 10
           /\ InRangeDigit(k, Len(games)))
          => (/\ pc' = "render"
              /\ focus' = Digit(k)
              /\ extra_status_text' = BackHint)]_vars

C4_Witness ==
    /\ pc = "render"
    /\ Len(games) = MaxSmall
    /\ k = Ord0 + (MaxSmall - 1)
    /\ focus = MaxSmall - 1
    /\ extra_status_text = BackHint
    /\ footer = "none"

\* C5: with more than 10 games the key check completes without error and a
\* digit key d focuses game d.
C5_BigBatchKeepsRunning ==
    [][(pc = "key" /\ pc' # "key" /\ Len(games) > 10)
       => (/\ pc' = "render"
           /\ (IsDigitKey(k) => focus' = Digit(k)))]_vars

\* C6: applying 'b' in any state yields Overview and the selection hint.
C6_BackKeyYieldsOverview ==
    [][(pc = "key" /\ pc' # "key" /\ k = OrdB)
       => (focus' = NoFocus /\ extra_status_text' = SelectHint)]_vars

\* C7: a key that is not an in-range digit, not 'b' and not 'q' leaves the
\* focus and the status message as they were across the key check.
C7_OtherKeyNoChange ==
    [][(/\ pc = "key"
        /\ pc' # "key"
        /\ ~InRangeDigit(k, Len(games))
        /\ k # OrdB
        /\ k # OrdQ)
       => (focus' = focus /\ extra_status_text' = extra_status_text)]_vars

C7_Witness ==
    /\ pc = "render"
    /\ Len(games) = 2
    /\ k = Ord0 + 2
    /\ focus = 1
    /\ extra_status_text = PulseText

\* C8: when 'q' has been read the loop is left at once, with no fetch, key
\* transition, render or status pulse after it, and 'q' is the only key whose
\* reading ends the loop: a step of the key check, the render or the key
\* read that ends the loop, by the while test or by an exception, has 'q' as
\* the key read last.
C8_OnlyQExitsLoop ==
    [][/\ (pc = "while" /\ k = OrdQ)
          => (/\ pc' \in {"while", "exit"}
              /\ UNCHANGED <<exc, k, focus, extra_status_text, games,
                             module_games, now, fetched, pulsed, frame,
                             footer>>)
       /\ (pc' = "exit" /\ pc # "exit") => k = OrdQ
       /\ (pc \in {"key", "render", "getch"} /\ pc' = "raise" /\ k \in Keys)
          => k = OrdQ
       /\ pc = "exit" => UNCHANGED vars]_vars

C10_ExpectedColumns ==
    SelectSeq(PeriodKeys,
              LAMBDA c : \/ ~HasOT(c)
                         \/ away_quarter2pts[Lookup(away_quarter2pts, c)].v # None
                         \/ home_quarter2pts[Lookup(home_quarter2pts, c)].v # None)

C10_BoxColumns ==
    pc = "box_done" =>
        /\ box.columns = C10_ExpectedColumns
        /\ \A i \in 1..Len(box.columns) :
              /\ away_quarter2pts[Lookup(away_quarter2pts, box.columns[i])].v = None
                    => box.away_cells[i] = <<45>>
              /\ home_quarter2pts[Lookup(home_quarter2pts, box.columns[i])].v = None
                    => box.home_cells[i] = <<45>>

\* C11: in every box-score cell a null value shows as '-' and a value of 0
\* shows as 0, and an overtime period in which a team has the value 0 is
\* kept as a column.
C11_NullVersusZero ==
    pc = "box_done" =>
        /\ \A i \in 1..Len(box.columns) :
              LET a == away_quarter2pts[Lookup(away_quarter2pts, box.columns[i])].v
                  h == home_quarter2pts[Lookup(home_quarter2pts, box.columns[i])].v
              IN /\ a = None => box.away_cells[i] = <<45>>
                 /\ h = None => box.home_cells[i] = <<45>>
                 /\ a = <<0>> => box.away_cells[i] = <<Ord0>>
                 /\ h = <<0>> => box.home_cells[i] = <<Ord0>>
        /\ \A j \in 1..Len(PeriodKeys) :
              (/\ HasOT(PeriodKeys[j])
               /\ \/ away_quarter2pts[j].v = <<0>>
                  \/ home_quarter2pts[j].v = <<0>>)
              => \E i \in 1..Len(box.columns) : box.columns[i] = PeriodKeys[j]

\* the ids of the games of `raw` that have a line score for both teams
C12_CompleteIds ==
    LET hs == SelectSeq(raw.GameHeader,
                        LAMBDA h : /\ TeamRows(raw, h.VISITOR_TEAM_ID) # <<>>
                                   /\ TeamRows(raw, h.HOME_TEAM_ID) # <<>>)
    IN [i \in 1..Len(hs) |-> hs[i].GAME_ID]

\* C12: building the batch never fails; the batch is the games that have a
\* line score for both teams, in header order, each with both descriptors.
C12_IncompleteGameSkipped ==
    pc \in {"raise", "build_done"} =>
        /\ pc = "build_done"
        /\ [i \in 1..Len(built) |-> built[i].game_id] = C12_CompleteIds
        /\ \A i \in 1..Len(built) :
              /\ built[i].away_city = 2 * built[i].game_id + 1
              /\ built[i].home_city = 2 * built[i].game_id

\* C13: centered text of length L on a terminal of width W is written at
\* column floor(W/2) - floor(L/2) - (L mod 2), which is 38 for W=80, L=4 and
\* 37 for W=80, L=5; left-column text at floor(W/4) - floor(L/2) - (L mod 2)
\* and right-column text at that value plus floor(W/2).
C13_CenteringRule ==
    \A i \in 1..Len(writes) :
        LET L == writes[i].n
            W == width
            half == (L - (L % 2)) \div 2
        IN /\ writes[i].kind = "centered"
              => /\ writes[i].x = ((W - (W % 2)) \div 2) - half - (L % 2)
                 /\ (W = 80 /\ L = 4) => writes[i].x = 38
                 /\ (W = 80 /\ L = 5) => writes[i].x = 37
           /\ writes[i].kind = "left"
              => writes[i].x = ((W - (W % 4)) \div 4) - half - (L % 2)
           /\ writes[i].kind = "right"
              => writes[i].x = ((W - (W % 4)) \div 4) - half - (L % 2)
                               + ((W - (W % 2)) \div 2)

C13_Witness ==
    /\ pc = "layout_done"
    /\ width = 81
    /\ Len(writes) = 1
    /\ writes[1].kind = "right"
    /\ writes[1].n = 5
    /\ writes[1].x = 57

\* _display_game has drawn a whole frame
C18_DetailDrawn ==
    /\ pc = "layout_done"
    /\ writes # <<>>
    /\ writes[1].line = "title"

\* C18: in detail mode the title, the score line, the status line and the
\* box-score rows are on pairwise distinct rows in that top-to-bottom order,
\* the statistics start below the last box-score row, and two lines share a
\* row only if they are the left/right pair of a statistics row.
C18_DetailRowsDistinct ==
    C18_DetailDrawn =>
        LET centered == SelectSeq(writes, LAMBDA wr : wr.kind = "centered")
            stats == SelectSeq(writes, LAMBDA wr : wr.line = "stat")
        IN /\ \A i, j \in 1..Len(centered) : i < j => centered[i].y < centered[j].y
           /\ \A i \in 1..Len(stats) : stats[i].y > centered[Len(centered)].y
           /\ \A i, j \in 1..Len(writes) :
                 (i # j /\ writes[i].y = writes[j].y)
                 => {writes[i].kind, writes[j].kind} = {"left", "right"}

\* C19: every column a centered or column-centered write passes to the
\* terminal is at least 0 and inside the terminal, and no write ends the
\* call with a curses error, however small the terminal.
C19_WritesInsideTerminal ==
    /\ \A i \in 1..Len(writes) :
          writes[i].kind \in {"centered", "left", "right"}
          => (writes[i].x >= 0 /\ writes[i].x < width)
    /\ exc # "curses.error"

\* _display_status_bar was called
C20_BarCalled ==
    /\ pc \in {"layout_done", "raise"}
    /\ writes # <<>>
    /\ writes[1].line = "footer"

\* C20 as stated: for a footer text of length at most W the bottom row holds
\* the text followed by spaces up to exactly W characters.
C20_FooterSpansFullWidth ==
    (C20_BarCalled /\ QuitHintLen + StatusLen(extra_status_text) <= width)
    => /\ pc = "layout_done"
       /\ Len(writes) = 2
       /\ writes[1].n + writes[2].n = width

\* C20, amended: for a footer text of length at most W - 1 the bottom row
\* holds the text at column 0 followed by spaces up to exactly W - 1
\* characters; the last cell of the row is not written.
C20_FooterSpansAllButLastCell ==
    (C20_BarCalled /\ QuitHintLen + StatusLen(extra_status_text) <= width - 1)
    => /\ pc = "layout_done"
       /\ Len(writes) = 2
       /\ writes[1].y = height - 1
       /\ writes[1].x = 0
       /\ writes[1].n = QuitHintLen + StatusLen(extra_status_text)
       /\ writes[2].y = height - 1
       /\ writes[2].x = writes[1].n
       /\ writes[1].n + writes[2].n = width - 1

C20_Witness ==
    /\ C20_BarCalled
    /\ pc = "layout_done"
    /\ extra_status_text = SelectHint
    /\ width = 46
    /\ writes[2].n = 1

\* a date of the form MM-DD-YYYY: two decimal digits, the first 0 or 1, a
\* dash, two decimal digits, the first 0..3, a dash, four decimal digits
C14_WellFormed(s) ==
    /\ Len(s) \in {10, 11}
    /\ Len(s) = 11 => s[11] = 10
    /\ s[1] \in {Ord0, Ord0 + 1}
    /\ s[4] \in Ord0..(Ord0 + 3)
    /\ \A i \in {2, 5, 7, 8, 9, 10} : \E z \in DecimalZeros : s[i] - z \in 0..9
    /\ s[3] = 45
    /\ s[6] = 45

\* the date is a well-formed date with its dashes replaced by slashes
C14_Validated(s) ==
    /\ Len(s) \in {10, 11}
    /\ s[3] = 47
    /\ s[6] = 47
    /\ C14_WellFormed([i \in 1..Len(s) |-> IF i \in {3, 6} THEN 45 ELSE s[i]])

\* C14: the loop runs only after the date passed validation and the initial
\* fetch returned a non-empty batch; an invalid date ends the process before
\* any fetch and any UI; an empty initial batch prints the message and ends
\* the process cleanly without entering the UI.
C14_LoopOnlyAfterValidStart ==
    /\ [](pc \in LoopPcs => (ui_entered /\ main_fetched /\ ~printed))
    /\ []((main_fetched \/ ui_entered \/ printed) => C14_Validated(date))
    /\ [](ui_entered => main_fetched /\ Len(module_games) > 0)
    /\ [](printed => (pc = "exit" /\ exc = "none" /\ ~ui_entered /\ main_fetched))
    /\ [][/\ (pc = "main" /\ ~C14_WellFormed(date))
             => (pc' = "raise" /\ exc' = "ValueError"
                 /\ UNCHANGED <<date, main_fetched, ui_entered, printed>>)
          /\ (pc = "main" /\ pc' = "fetch") => C14_WellFormed(date)
          /\ (main_fetched' /\ ~main_fetched) => pc = "fetch"
          /\ (ui_entered' /\ ~ui_entered)
             => (pc = "launch" /\ main_fetched /\ Len(module_games) > 0)
          /\ (pc = "launch" /\ Len(module_games) = 0)
             => (printed' /\ pc' = "exit" /\ ~ui_entered')
          /\ pc = "raise" => UNCHANGED vars]_vars

C14_Witness ==
    /\ pc = "getch"
    /\ ui_entered
    /\ main_fetched
    /\ date = ReplaceDash(Date1)

\* C15: every iteration runs its steps in the order: re-read the terminal
\* size, conditional fetch, key check, render of the view and the footer,
\* conditional status pulse, redraw and blocking key read.  A digit key is
\* range-checked against the batch left by this iteration's fetch, and the
\* footer drawn in an iteration holds the status text from before its pulse.
C15_StepOrder ==
    /\ [](pc \in {"pulse", "getch"} => (height > 0 /\ width > 0))
    /\ [](pc = "pulse" => footer = extra_status_text)
    /\ [][/\ pc' # pc =>
               /\ pc = "while" => pc' \in {"update", "exit"}
               /\ pc = "update" => pc' \in {"key", "raise"}
               /\ pc = "key" => pc' \in {"render", "raise"}
               /\ pc = "render" => pc' \in {"pulse", "raise"}
               /\ pc = "pulse" => pc' = "getch"
               /\ pc = "getch" => pc' \in {"while", "raise"}
          /\ (pc = "while" /\ pc' = "update")
             => /\ <<height', width'>> \in TermSizes
                /\ frame' = ClearFrame
                /\ UNCHANGED <<games, k, focus, extra_status_text>>
          /\ (pc = "update" /\ pc' = "key")
             => UNCHANGED <<k, focus, extra_status_text, frame, footer>>
          /\ (pc = "key" /\ pc' = "render")
             => /\ UNCHANGED <<games, frame, footer>>
                /\ IsDigitKey(k)
                   => focus' = IF Digit(k) < Len(games) THEN Digit(k) ELSE focus
          /\ (pc = "render" /\ pc' = "pulse")
             => /\ footer' = extra_status_text
                /\ frame'.mode = IF focus > NoFocus THEN "game" ELSE "all"
                /\ UNCHANGED <<games, focus, extra_status_text>>
          /\ (pc = "pulse" /\ pc' = "getch")
             => /\ UNCHANGED <<frame, footer, games, focus>>
                /\ extra_status_text' \in {extra_status_text, PulseText}
          /\ (pc = "getch" /\ pc' = "while")
             => UNCHANGED <<frame, footer, games, focus, extra_status_text>>]_vars

C15_Witness ==
    /\ pc = "getch"
    /\ fetched
    /\ pulsed
    /\ IsDigitKey(k)
    /\ Digit(k) < Len(module_games)
    /\ Digit(k) >= Len(games)
    /\ focus = NoFocus
    /\ extra_status_text = PulseText
    /\ footer = SelectHint0

\* C16: an iteration fetches iff the second read at the data-update step is
\* divisible by 5, and pulses iff the second read at the pulse step is
\* divisible by the refresh interval; the iteration goes on to the pulse
\* decision whether or not the fetch happened or succeeded.
C16_IndependentChecks ==
    [][/\ (pc = "update" /\ pc' # "update")
          => /\ now' = clock
             /\ fetched' <=> (now' % 5 = 0)
             /\ pc' = "key"
       /\ (pc = "pulse" /\ pc' # "pulse")
          => /\ now' = clock
             /\ pulsed' <=> (now' % refresh_delay = 0)
             /\ extra_status_text' = IF pulsed' THEN PulseText
                                     ELSE extra_status_text]_vars

\* C17 as stated: a new iteration begins only with a pressed key returned by
\* the key read; while the loop is blocked there nothing but the wall clock
\* changes, so a second divisible by 5 or by the refresh interval that passes
\* meanwhile triggers no fetch, no pulse and no redraw.
C17_BlockedUntilKey ==
    [][/\ (pc = "getch" /\ pc' = "getch")
          => UNCHANGED <<exc, k, focus, extra_status_text, refresh_delay,
                         games, module_games, now, fetched, pulsed, height,
                         width, frame, footer>>
       /\ (pc = "getch" /\ pc' # "getch")
          => /\ pc' = "while"
             /\ k' \in Keys
             /\ UNCHANGED <<exc, focus, extra_status_text, games, module_games,
                            now, fetched, pulsed, frame, footer>>
       /\ (pc' = "while" /\ pc # "while") => pc = "getch"
       /\ (pc' = "update" /\ pc # "update") => pc = "while"]_vars

TypeOK ==
    /\ pc \in {"while", "update", "key", "render", "pulse", "getch", "exit", "raise"}
    /\ focus \in NoFocus..9
    /\ now \in StartTime..MaxTime
    /\ clock \in now..MaxTime

====
